---- MODULE Spec2Model ----
(***************************************************************************)
(* KiloMan: the session controller (GameContainer), the simulation core    *)
(* (GameCanvas.update), the frame loop and the score calculator.           *)
(*                                                                         *)
(* Numbers.  World coordinates and velocities are JavaScript numbers; the  *)
(* model keeps them as integers counting hundredths of a world unit        *)
(* (P(50) is 50.0, gravity 0.6 is 60).  Products with a fraction (friction *)
(* 0.85, the camera's 0.1 and 0.05) are rounded toward zero at that        *)
(* resolution.  Wall-clock times are integers counting milliseconds.       *)
(*                                                                         *)
(* React.  setGameState only queues an update.  A later render commits the *)
(* queued value (Commit); the passive effects of that render (useEffect)   *)
(* run later still (FlushEffects), unless the render came from a click,    *)
(* which React renders and flushes synchronously (Restart).  The frame     *)
(* callback that an effect registered captures the gameState of its        *)
(* render and stays registered until the next effect run cancels it.       *)
(***************************************************************************)
EXTENDS Integers, Sequences, FiniteSets, TLC

\* ------------------------------------------------------------------ bounds
\* Frames simulated in one run (frameCountRef never exceeds it).
MaxFrames == 6
\* Keyboard events delivered in one run.
MaxKeyEvents == 2
\* Frames simulated in one run on the long level (LevelRun).
MaxRunFrames == 30
\* Keyboard events delivered in one run on the long level.
MaxRunKeyEvents == 1

\* ----------------------------------------------------------------- numbers
P(n) == n * 100

Abs(a) == IF a < 0 THEN -a ELSE a

Max(a, b) == IF a >= b THEN a ELSE b

\* Math.floor(a / b) for b > 0
FloorDiv(a, b) == a \div b

\* a * num / den, rounded toward zero (den > 0)
MulFrac(a, num, den) ==
  IF a >= 0 THEN (a * num) \div den ELSE -(((-a) * num) \div den)

Last(s) == s[Len(s)]

\* --------------------------------------------------------- score calculator
\* calculatePoints(timeInSeconds), the argument given in milliseconds:
\* Math.floor(timeInSeconds * 100) = floor(ms / 10)
calculatePointsTrunc(ms) ==
  Max(1000, 10000 - MulFrac(ms, 100, 1000))

calculatePointsLowFloor(ms) ==
  Max(100, 10000 - FloorDiv(ms * 100, 1000))

calculatePoints(ms) ==
  LET basePoints == 10000
      pointsPerSecond == 100
  IN  Max(1000, basePoints - FloorDiv(ms * pointsPerSecond, 1000))

\* ------------------------------------------------------------ configuration
CONFIG ==
  [ gravity       |-> 60,
    frictionPct   |-> 85,
    moveSpeed     |-> 80,
    maxSpeed      |-> 800,
    baseJumpForce |-> -1400,
    levelWidth    |-> P(7000) ]

\* if (player.y > 800)
VoidY == P(800)

\* ---------------------------------------------------------------- level data
Ent(id, t, x, y, w, h) ==
  [ id |-> id, type |-> t, x |-> P(x), y |-> P(y), w |-> P(w), h |-> P(h),
    patrolStart |-> 0, patrolEnd |-> 0, speed |-> 0 ]

\* a monster entity; sp is its speed in hundredths of a unit per frame
Mon(id, x, y, w, h, ps, pe, sp) ==
  [ id |-> id, type |-> "monster", x |-> P(x), y |-> P(y), w |-> P(w), h |-> P(h),
    patrolStart |-> P(ps), patrolEnd |-> P(pe), speed |-> sp ]

\* Ground under the start, spikes to the left, a goal to the right with spikes
\* right behind it (listed before the goal), a monster walking in on the ground.
LevelA ==
  << Ent("ground", "platform", 0, 400, 200, 50),
     Ent("spikesR", "hazard", 85, 390, 30, 10),
     Ent("goal", "goal", 83, 300, 40, 100),
     Ent("spikesL", "hazard", 0, 390, 47, 10),
     Ent("start", "start", 50, 350, 0, 0),
     Mon("m1", 100, 370, 30, 30, 72, 110, 1000) >>

\* The same ground with the goal listed before the spikes behind it, the spikes
\* reached one frame before the goal's far side; a fast monster overhead whose
\* step is longer than its patrol range.
LevelB ==
  << Mon("m1", 60, 200, 30, 30, 40, 90, 6000),
     Ent("start", "start", 50, 350, 0, 0),
     Ent("goal", "goal", 85, 300, 40, 100),
     Ent("spikesR", "hazard", 83, 390, 30, 10),
     Ent("ground", "platform", 0, 400, 200, 50) >>

\* No ground under the start: the player falls into the void.  One monster's
\* patrol starts at world x = 0, the other stands at the end of its range.
LevelC ==
  << Ent("start", "start", 50, 795, 0, 0),
     Ent("ledge", "platform", 300, 400, 200, 50),
     Ent("goal", "goal", 400, 300, 40, 100),
     Mon("m1", 30, 100, 30, 30, 0, 60, 3500),
     Mon("m2", 300, 100, 30, 30, 250, 300, 1500) >>

\* A ledge at the left edge of the world, the start one unit from its end.
LevelD ==
  << Ent("ledge", "platform", 0, 400, 52, 50),
     Ent("start", "start", 50, 350, 0, 0),
     Ent("goal", "goal", 300, 300, 40, 100) >>

\* Ground with a block on it whose top is one unit above the ground's top, the
\* ground listed first.
LevelE ==
  << Ent("ground", "platform", 0, 400, 200, 50),
     Ent("block", "platform", 82, 399, 40, 51),
     Ent("start", "start", 50, 350, 0, 0),
     Ent("goal", "goal", 300, 300, 40, 100) >>

\* To the left a hazard listed before a goal at the same place, to the right a
\* goal listed before a hazard at the same place, then the ground, then spikes
\* set into the ground's top.
LevelF ==
  << Ent("spikesL", "hazard", 0, 390, 47, 10),
     Ent("goalL", "goal", 0, 300, 47, 100),
     Ent("goalR", "goal", 85, 300, 40, 100),
     Ent("spikesR", "hazard", 85, 390, 30, 10),
     Ent("start", "start", 50, 350, 0, 0),
     Ent("ground", "platform", 0, 400, 200, 50),
     Ent("pit", "hazard", 82, 400, 3, 10) >>

\* No ground under the start, a goal below the void threshold.
LevelG ==
  << Ent("start", "start", 50, 795, 0, 0),
     Ent("goal", "goal", 40, 850, 50, 40),
     Ent("ledge", "platform", 300, 400, 200, 50) >>

\* The settling scenario: a platform at y = 400, h = 50 spanning x in [0, 200]
\* under the start, spikes at the left edge of the world, the goal far away.
LevelRun ==
  << Ent("ground", "platform", 0, 400, 200, 50),
     Ent("start", "start", 50, 350, 0, 0),
     Ent("spikes", "hazard", 0, 390, 1, 10),
     Ent("goal", "goal", 6000, 300, 40, 100) >>

\* A post whose left end is one unit under the right side of the start, its top
\* two units below the start's feet: the falling player meets its corner.
LevelH ==
  << Ent("start", "start", 50, 350, 0, 0),
     Ent("post", "platform", 79, 402, 40, 50),
     Ent("goal", "goal", 300, 300, 40, 100) >>

\* A slab whose left end is 0.3 under the right side of the start, the start's
\* feet half a unit above its top: the player lands on its corner.
LevelI ==
  << [Ent("start", "start", 50, 349, 0, 0) EXCEPT !.y = @ + 50],
     [Ent("slab", "platform", 79, 400, 40, 50) EXCEPT !.x = @ + 70],
     Ent("goal", "goal", 300, 300, 40, 100) >>

Levels ==
  << LevelA, LevelB, LevelC, LevelD, LevelE, LevelF, LevelG, LevelRun, LevelH,
     LevelI >>

\* the levels each specification runs on (indices of Levels)
SessionLevels == { 1, 2, 3 }

TerrainLevels == { 4, 5, 6, 7, 9, 10 }

RunLevels == { 8 }

\* window.innerWidth x window.innerHeight at mount
Viewports == { [width |-> P(800), height |-> P(600)] }

\* a window taller than the level is deep
TallViewports == { [width |-> P(800), height |-> P(1000)] }

\* Values Date.now() returns (milliseconds); the wall clock may be set back.
Times == { 20000, 70000, 170000 }

KeyCodes == { "ArrowLeft", "ArrowRight", "Space" }

NoData == [completionTime |-> 0, points |-> 0, set |-> FALSE]

VARIABLES
  gameState,       \* GameContainer: the committed gameState
  queue,           \* setGameState calls React has not rendered yet
  effectsDue,      \* a render is committed and its passive effects have not run
  depState,        \* the gameState the [gameState] effects last ran with
  callbacks,       \* the gameState captured by each frame callback registered
                   \* with the host, oldest first; requestRef names the last
  mounted,         \* GameCanvas is mounted
  player,          \* playerRef.current
  monsters,        \* monstersRef.current
  camera,          \* cameraRef.current
  keys,            \* keysRef.current
  frameCount,      \* frameCountRef.current
  startTime,       \* startTimeRef.current
  completionData,  \* GameContainer: completionData (NoData is null)
  jumpModifier,    \* GameContainer: jumpModifier, in tenths
  dimensions,      \* GameCanvas: dimensions (the canvas size)
  level,           \* which of Levels is LEVEL_1
  keyEvents,       \* keyboard events delivered so far
  lastPressed,     \* the movement key whose keydown came last ("" before any)
  emitted,         \* the setGameState calls of the latest update() call
  trace,           \* what the latest update() call did after integration
  requests,        \* outcomes update() requested since the last session reset
  entries,         \* the player and monster state each session reset produced
  step,            \* the latest update() call: the player after integration,
                   \* after the world bounds, and each platform resolution
  calc             \* score calculator: inputs and results

vars ==
  << gameState, queue, effectsDue, depState, callbacks, mounted, player, monsters, camera,
     keys, frameCount, startTime, completionData, jumpModifier, dimensions, level,
     keyEvents, lastPressed, emitted, trace, requests, entries, step, calc >>

LEVEL_1 == Levels[level]

\* frames simulated in one run on the level in use
FrameCap == IF level \in RunLevels THEN MaxRunFrames ELSE MaxFrames

\* keyboard events delivered in one run on the level in use
KeyCap == IF level \in RunLevels THEN MaxRunKeyEvents ELSE MaxKeyEvents

\* ------------------------------------------------------------ player physics
\* update(): horizontal movement, friction and limits, gravity, jumping,
\* apply velocity
PhysicsJumpAnywhere(p, k, jm) ==
  LET vxL == IF k["ArrowLeft"] THEN p.vx - CONFIG.moveSpeed ELSE p.vx
      vxR == IF k["ArrowRight"] THEN vxL + CONFIG.moveSpeed ELSE vxL
      facing == IF k["ArrowRight"] THEN 1
                ELSE IF k["ArrowLeft"] THEN -1 ELSE p.facing
      vxF == MulFrac(vxR, CONFIG.frictionPct, 100)
      vxHi == IF vxF > CONFIG.maxSpeed THEN CONFIG.maxSpeed ELSE vxF
      vx == IF vxHi < -CONFIG.maxSpeed THEN -CONFIG.maxSpeed ELSE vxHi
      vyG == p.vy + CONFIG.gravity
      jump == k["Space"]
      vy == IF jump THEN (CONFIG.baseJumpForce * jm) \div 10 ELSE vyG
  IN  [p EXCEPT !.vx = vx, !.vy = vy, !.facing = facing,
                !.isGrounded = IF jump THEN FALSE ELSE @,
                !.x = @ + vx, !.y = @ + vy]

PhysicsFrictionFirst(p, k, jm) ==
  LET vxF == MulFrac(p.vx, CONFIG.frictionPct, 100)
      vxL == IF k["ArrowLeft"] THEN vxF - CONFIG.moveSpeed ELSE vxF
      vxR == IF k["ArrowRight"] THEN vxL + CONFIG.moveSpeed ELSE vxL
      facing == IF k["ArrowRight"] THEN 1
                ELSE IF k["ArrowLeft"] THEN -1 ELSE p.facing
      vxHi == IF vxR > CONFIG.maxSpeed THEN CONFIG.maxSpeed ELSE vxR
      vx == IF vxHi < -CONFIG.maxSpeed THEN -CONFIG.maxSpeed ELSE vxHi
      vyG == p.vy + CONFIG.gravity
      jump == k["Space"] /\ p.isGrounded
      vy == IF jump THEN (CONFIG.baseJumpForce * jm) \div 10 ELSE vyG
  IN  [p EXCEPT !.vx = vx, !.vy = vy, !.facing = facing,
                !.isGrounded = IF jump THEN FALSE ELSE @,
                !.x = @ + vx, !.y = @ + vy]

PhysicsFrictionWhenIdle(p, k, jm) ==
  LET vxL == IF k["ArrowLeft"] THEN p.vx - CONFIG.moveSpeed ELSE p.vx
      vxR == IF k["ArrowRight"] THEN vxL + CONFIG.moveSpeed ELSE vxL
      facing == IF k["ArrowRight"] THEN 1
                ELSE IF k["ArrowLeft"] THEN -1 ELSE p.facing
      vx == IF k["ArrowLeft"] \/ k["ArrowRight"]
              THEN vxR ELSE MulFrac(vxR, CONFIG.frictionPct, 100)
      vyG == p.vy + CONFIG.gravity
      jump == k["Space"] /\ p.isGrounded
      vy == IF jump THEN (CONFIG.baseJumpForce * jm) \div 10 ELSE vyG
  IN  [p EXCEPT !.vx = vx, !.vy = vy, !.facing = facing,
                !.isGrounded = IF jump THEN FALSE ELSE @,
                !.x = @ + vx, !.y = @ + vy]

Physics(p, k, jm) ==
  LET vxL == IF k["ArrowLeft"] THEN p.vx - CONFIG.moveSpeed ELSE p.vx
      vxR == IF k["ArrowRight"] THEN vxL + CONFIG.moveSpeed ELSE vxL
      facing == IF k["ArrowRight"] THEN 1
                ELSE IF k["ArrowLeft"] THEN -1 ELSE p.facing
      vxF == MulFrac(vxR, CONFIG.frictionPct, 100)
      vxHi == IF vxF > CONFIG.maxSpeed THEN CONFIG.maxSpeed ELSE vxF
      vx == IF vxHi < -CONFIG.maxSpeed THEN -CONFIG.maxSpeed ELSE vxHi
      vyG == p.vy + CONFIG.gravity
      jump == k["Space"] /\ p.isGrounded
      vy == IF jump THEN (CONFIG.baseJumpForce * jm) \div 10 ELSE vyG
  IN  [p EXCEPT !.vx = vx, !.vy = vy, !.facing = facing,
                !.isGrounded = IF jump THEN FALSE ELSE @,
                !.x = @ + vx, !.y = @ + vy]

\* ------------------------------------------------------------- enemy patrol
MoveMonsterNoClamp(m) ==
  LET x == m.x + m.vx
  IN  IF x <= m.patrolStart THEN [m EXCEPT !.x = x, !.vx = Abs(m.speed)]
      ELSE IF x >= m.patrolEnd THEN [m EXCEPT !.x = x, !.vx = -Abs(m.speed)]
      ELSE [m EXCEPT !.x = x]

MoveMonsterEarlyTurn(m) ==
  LET x == m.x + m.vx
  IN  IF x <= m.patrolStart + m.speed
        THEN [m EXCEPT !.x = Max(x, m.patrolStart), !.vx = Abs(m.speed)]
      ELSE IF x >= m.patrolEnd THEN [m EXCEPT !.x = m.patrolEnd, !.vx = -Abs(m.speed)]
      ELSE [m EXCEPT !.x = x]

\* monsters.forEach(m => { m.x += m.vx; patrol logic })
MoveMonster(m) ==
  LET x == m.x + m.vx
  IN  IF x <= m.patrolStart
        THEN [m EXCEPT !.x = m.patrolStart, !.vx = Abs(m.speed)]
      ELSE IF x >= m.patrolEnd
        THEN [m EXCEPT !.x = m.patrolEnd, !.vx = -Abs(m.speed)]
      ELSE [m EXCEPT !.x = x]

\* ---------------------------------------------------------------- collisions
\* World boundaries: the two clamps of player.x
WorldBounds(p) ==
  LET a == IF p.x < 0 THEN [p EXCEPT !.x = 0, !.vx = 0] ELSE p
  IN  IF a.x > CONFIG.levelWidth
        THEN [a EXCEPT !.x = CONFIG.levelWidth, !.vx = 0] ELSE a

\* the rectangle test of the entity scan and of the monster scan
Overlaps(p, e) ==
  /\ p.x < e.x + e.w
  /\ p.x + p.width > e.x
  /\ p.y < e.y + e.h
  /\ p.y + p.height > e.y

ResolvePlatformKeepsVy(p, e) ==
  LET overlapX2 == (p.width + e.w) - Abs((2 * p.x + p.width) - (2 * e.x + e.w))
      overlapY2 == (p.height + e.h) - Abs((2 * p.y + p.height) - (2 * e.y + e.h))
  IN  IF overlapX2 < overlapY2
        THEN IF p.vx > 0 THEN [p EXCEPT !.x = e.x - p.width, !.vx = 0]
                         ELSE [p EXCEPT !.x = e.x + e.w, !.vx = 0]
      ELSE IF p.vy > 0
        THEN [p EXCEPT !.y = e.y - p.height, !.isGrounded = TRUE]
        ELSE [p EXCEPT !.y = e.y + e.h, !.vy = 0]

\* entity.type === 'platform': push out along the axis of the smaller overlap
\* (both overlaps are compared doubled, which keeps the halves exact)
ResolvePlatform(p, e) ==
  LET overlapX2 == (p.width + e.w) - Abs((2 * p.x + p.width) - (2 * e.x + e.w))
      overlapY2 == (p.height + e.h) - Abs((2 * p.y + p.height) - (2 * e.y + e.h))
  IN  IF overlapX2 < overlapY2
        THEN IF p.vx > 0 THEN [p EXCEPT !.x = e.x - p.width, !.vx = 0]
                         ELSE [p EXCEPT !.x = e.x + e.w, !.vx = 0]
      ELSE IF p.vy > 0
        THEN [p EXCEPT !.y = e.y - p.height, !.isGrounded = TRUE, !.vy = 0]
        ELSE [p EXCEPT !.y = e.y + e.h, !.vy = 0]

\* One update() call in progress: the state it works on, the setGameState calls
\* it has made (out), what it has done (did) and whether it has returned.
EmitNoReturn(c, status) ==
  [c EXCEPT !.out = Append(@, status), !.did = Append(@, "emit")]

\* setGameState(status); return;
Emit(c, status) ==
  [c EXCEPT !.out = Append(@, status), !.did = Append(@, "emit"),
            !.returned = TRUE]

VoidCheckNoReturn(c) ==
  IF c.player.y > VoidY THEN EmitNoReturn(c, "lost") ELSE c

\* if (player.y > 800) { setGameState('lost'); return; }
VoidCheck(c) ==
  IF c.player.y > VoidY THEN Emit(c, "lost") ELSE c

\* the body of  for (const entity of LEVEL_1)
CollideEntity(c, e) ==
  IF e.type = "monster" \/ ~Overlaps(c.player, e) THEN c
  ELSE IF e.type = "hazard" THEN Emit(c, "lost")
  ELSE IF e.type = "goal" THEN Emit(c, "won")
  ELSE IF e.type = "platform"
    THEN [c EXCEPT !.player = ResolvePlatform(@, e), !.did = Append(@, "resolve"),
                   !.hits = Append(@, [id |-> e.id, before |-> c.player,
                                       after |-> ResolvePlatform(c.player, e)])]
  ELSE c

RECURSIVE EntityCollisionBackwards(_, _, _)
EntityCollisionBackwards(c, L, i) ==
  IF c.returned \/ i > Len(L) THEN c
  ELSE EntityCollisionBackwards(CollideEntity(c, L[Len(L) + 1 - i]), L, i + 1)

\* for (const entity of LEVEL_1), from entity i on
RECURSIVE EntityCollision(_, _, _)
EntityCollision(c, L, i) ==
  IF c.returned \/ i > Len(L) THEN c
  ELSE EntityCollision(CollideEntity(c, L[i]), L, i + 1)

RECURSIVE MonsterCollisionPushBack(_, _)
MonsterCollisionPushBack(c, i) ==
  IF c.returned \/ i > Len(c.monsters) THEN c
  ELSE MonsterCollisionPushBack(
         IF Overlaps(c.player, c.monsters[i])
           THEN [c EXCEPT !.player.x = c.monsters[i].x - c.player.width,
                          !.player.vx = 0]
           ELSE c, i + 1)
\* Monster Collision (Player vs Monster)
RECURSIVE MonsterCollision(_, _)
MonsterCollision(c, i) ==
  IF c.returned \/ i > Len(c.monsters) THEN c
  ELSE MonsterCollision(
         IF Overlaps(c.player, c.monsters[i]) THEN Emit(c, "lost") ELSE c, i + 1)

\* ------------------------------------------------------------------- camera
CameraUpdate(c, canvas) ==
  LET p == c.player
      tx0 == p.x - canvas.width \div 2 + p.width \div 2
      tx1 == IF tx0 < 0 THEN 0 ELSE tx0
      targetX == IF tx1 > CONFIG.levelWidth - canvas.width
                   THEN CONFIG.levelWidth - canvas.width ELSE tx1
      groundLevel == P(600)
      idealCameraY == groundLevel - canvas.height + P(50)
      ty1 == IF p.y < groundLevel - MulFrac(canvas.height, 6, 10)
               THEN p.y - MulFrac(canvas.height, 4, 10) ELSE idealCameraY
      ty2 == IF p.y > groundLevel + P(100)
               THEN p.y - MulFrac(canvas.height, 8, 10) ELSE ty1
      lowestPoint == P(800)
      maxCameraY == lowestPoint - canvas.height
      targetY == IF ty2 > maxCameraY THEN maxCameraY ELSE ty2
  IN  [c EXCEPT !.camera = [x |-> c.camera.x + MulFrac(targetX - c.camera.x, 1, 10),
                            y |-> c.camera.y + MulFrac(targetY - c.camera.y, 5, 100)],
                !.did = Append(@, "camera")]

\* ------------------------------------------------------------------- update
updateKeepsGrounded(p, ms, cam, k, jm, canvas, L) ==
  LET p1 == Physics(p, k, jm)
      ms1 == [i \in DOMAIN ms |-> MoveMonster(ms[i])]
      p2 == WorldBounds(p1)
      c0 == [player |-> p2, monsters |-> ms1, camera |-> cam,
             out |-> <<>>, did |-> <<>>, returned |-> FALSE,
             integrated |-> p1, clamped |-> p2, hits |-> <<>>]
      c1 == VoidCheck(c0)
      c2 == EntityCollision(c1, L, 1)
      c3 == MonsterCollision(c2, 1)
  IN  IF c3.returned THEN c3 ELSE CameraUpdate(c3, canvas)

\* update() past its  if (gameState !== 'playing') return;
update(p, ms, cam, k, jm, canvas, L) ==
  LET p1 == Physics(p, k, jm)
      ms1 == [i \in DOMAIN ms |-> MoveMonster(ms[i])]
      p2 == WorldBounds([p1 EXCEPT !.isGrounded = FALSE])
      c0 == [player |-> p2, monsters |-> ms1, camera |-> cam,
             out |-> <<>>, did |-> <<>>, returned |-> FALSE,
             integrated |-> p1, clamped |-> p2, hits |-> <<>>]
      c1 == VoidCheck(c0)
      c2 == EntityCollision(c1, L, 1)
      c3 == MonsterCollision(c2, 1)
  IN  IF c3.returned THEN c3 ELSE CameraUpdate(c3, canvas)

\* ------------------------------------------------------------------ effects
\* What the effects read and write, as one record.
World ==
  [ gameState |-> gameState, depState |-> depState, callbacks |-> callbacks,
    player |-> player, monsters |-> monsters, camera |-> camera,
    startTime |-> startTime, completionData |-> completionData,
    requests |-> requests, entries |-> entries ]

\* a || b on numbers: b when a is 0
JsOr(a, b) == IF a = 0 THEN b ELSE a

\* LEVEL_1.filter(e => e.type === 'monster').map(m => ({...}))
InitMonsters(L) ==
  LET ms == SelectSeq(L, LAMBDA e : e.type = "monster")
  IN  [ i \in DOMAIN ms |->
        [ id |-> ms[i].id, x |-> ms[i].x, y |-> ms[i].y, w |-> ms[i].w, h |-> ms[i].h,
          vx |-> JsOr(ms[i].speed, 200),
          patrolStart |-> JsOr(ms[i].patrolStart, ms[i].x - P(100)),
          patrolEnd |-> JsOr(ms[i].patrolEnd, ms[i].x + P(100)),
          speed |-> JsOr(ms[i].speed, 200) ] ]

\* the player object both useRef and the reset effect write
NewPlayer(x, y) ==
  [ x |-> x, y |-> y, vx |-> 0, vy |-> 0, width |-> P(30), height |-> P(50),
    isGrounded |-> FALSE, facing |-> 1, frame |-> 0 ]

\* Reset Game State, the body of  if (gameState === 'playing')
ResetKeepsVelocity(w, L) ==
  LET starts == SelectSeq(L, LAMBDA e : e.type = "start")
      px == IF Len(starts) > 0 THEN starts[1].x ELSE P(50)
      py == IF Len(starts) > 0 THEN starts[1].y ELSE P(350)
  IN  [w EXCEPT !.player = [NewPlayer(px, py) EXCEPT !.vx = w.player.vx,
                                                      !.facing = w.player.facing],
                !.camera = [x |-> 0, y |-> 0],
                !.monsters = InitMonsters(L)]

ResetGameState(w, L) ==
  LET starts == SelectSeq(L, LAMBDA e : e.type = "start")
      px == IF Len(starts) > 0 THEN starts[1].x ELSE P(50)
      py == IF Len(starts) > 0 THEN starts[1].y ELSE P(350)
  IN  [w EXCEPT !.player = NewPlayer(px, py),
                !.camera = [x |-> 0, y |-> 0],
                !.monsters = InitMonsters(L)]

\* the frame effect: cancelAnimationFrame(old), requestAnimationFrame(loop)
\* with the loop of this render
\* cancelAnimationFrame(requestRef.current)
CancelFrame(cbs) == SubSeq(cbs, 1, Len(cbs) - 1)

\* the host takes callback i off its list and calls it; loop() ends with
\* requestRef.current = requestAnimationFrame(loop)
Rerequest(cbs, i) ==
  Append(SubSeq(cbs, 1, i - 1) \o SubSeq(cbs, i + 1, Len(cbs)), cbs[i])

FrameEffectNoCancel(w) == [w EXCEPT !.callbacks = Append(@, w.gameState)]

\* the cleanup of the previous render's frame effect, then the effect
FrameEffect(w) == [w EXCEPT !.callbacks = Append(CancelFrame(@), w.gameState)]

\* Track game start time, the body of  if (gameState === 'playing')
TrackStart(w, now) == [w EXCEPT !.startTime = now, !.completionData = NoData]

\* Calculate completion data when game is won
CompletionSwapped(w, now) ==
  IF w.gameState = "won" /\ w.startTime > 0
    THEN [w EXCEPT !.completionData =
            [ completionTime |-> now - w.startTime,
              points |-> calculatePoints(w.startTime - now), set |-> TRUE ]]
    ELSE w

Completion(w, now) ==
  IF w.gameState = "won" /\ w.startTime > 0
    THEN [w EXCEPT !.completionData =
            [ completionTime |-> now - w.startTime,
              points |-> calculatePoints(now - w.startTime), set |-> TRUE ]]
    ELSE w

\* The passive effects of one committed render, children first: GameCanvas
\* (reset, frame), then GameContainer (start time, completion data).  The
\* effects with dependency [gameState] run only when gameState has changed.
RunEffects(w, L, now) ==
  LET changed == w.gameState # w.depState
      entering == changed /\ w.gameState = "playing"
      w1 == IF entering THEN ResetGameState(w, L) ELSE w
      w2 == FrameEffect(w1)
      w3 == IF entering THEN TrackStart(w2, now) ELSE w2
      w4 == IF changed THEN Completion(w3, now) ELSE w3
  IN  [w4 EXCEPT !.depState = w.gameState,
                 !.requests = IF entering THEN <<>> ELSE @,
                 !.entries = IF entering
                               THEN Append(@, [player |-> w4.player,
                                               monsters |-> w4.monsters])
                               ELSE @]

\* What Date.now() may return to the effects of w's render: they read it only
\* when gameState has changed to 'playing' or to 'won'.
Clock(w) ==
  IF w.gameState # w.depState /\ w.gameState \in {"playing", "won"}
    THEN Times ELSE {0}

\* ----------------------------------------------------------------- behaviour
\* after mount: the first render's effects have run
Mounted ==
  /\ gameState = "start"
  /\ queue = <<>>
  /\ effectsDue = FALSE
  /\ depState = "start"
  /\ callbacks = << "start" >>
  /\ mounted = TRUE
  /\ player = NewPlayer(P(50), P(350))
  /\ monsters = <<>>
  /\ camera = [x |-> 0, y |-> 0]
  /\ keys = [k \in KeyCodes |-> FALSE]
  /\ frameCount = 0
  /\ startTime = 0
  /\ completionData = NoData
  /\ jumpModifier = 10
  /\ keyEvents = 0
  /\ lastPressed = ""
  /\ emitted = <<>>
  /\ trace = <<>>
  /\ requests = <<>>
  /\ entries = <<>>
  /\ step = [ integrated |-> NewPlayer(P(50), P(350)),
              clamped |-> NewPlayer(P(50), P(350)), contacts |-> <<>> ]

Init ==
  /\ Mounted
  /\ level \in SessionLevels
  /\ dimensions \in Viewports
  /\ calc = [t1 |-> 0, t2 |-> 0, p1 |-> 0, p2 |-> 0, done |-> FALSE]

SetWorld(w) ==
  /\ gameState' = w.gameState
  /\ depState' = w.depState
  /\ callbacks' = w.callbacks
  /\ player' = w.player
  /\ monsters' = w.monsters
  /\ camera' = w.camera
  /\ startTime' = w.startTime
  /\ completionData' = w.completionData
  /\ requests' = w.requests
  /\ entries' = w.entries

\* loop(), called by the host with the closure of a render in which
\* gameState was 'playing'
Frame ==
  /\ \E i \in DOMAIN callbacks :
       /\ callbacks[i] = "playing"
       /\ callbacks' = Rerequest(callbacks, i)
  /\ frameCount < FrameCap
  /\ LET c == update(player, monsters, camera, keys, jumpModifier, dimensions, LEVEL_1)
     IN  /\ player' = c.player
         /\ monsters' = c.monsters
         /\ camera' = c.camera
         /\ queue' = queue \o c.out
         /\ emitted' = c.out
         /\ trace' = c.did
         /\ requests' = requests \o c.out
         /\ step' = [ integrated |-> c.integrated, clamped |-> c.clamped,
                      contacts |-> c.hits ]
  /\ frameCount' = frameCount + 1
  /\ UNCHANGED << gameState, effectsDue, depState, mounted, keys, startTime,
                  completionData, jumpModifier, dimensions, level, keyEvents, lastPressed,
                  entries, calc >>

\* loop(), called with the closure of any other render: update() returns at
\* its first line
IdleFrame ==
  /\ \E i \in DOMAIN callbacks :
       /\ callbacks[i] # "playing"
       /\ callbacks' = Rerequest(callbacks, i)
  /\ UNCHANGED << gameState, queue, effectsDue, depState, mounted, player,
                  monsters, camera, keys, frameCount, startTime, completionData,
                  jumpModifier, dimensions, level, keyEvents, lastPressed,
                  emitted, trace, requests, entries, step, calc >>

\* React renders GameContainer with the queued gameState updates applied (it
\* runs effects still due before it renders again, so FlushEffects comes first)
Commit ==
  /\ queue # <<>>
  /\ ~effectsDue
  /\ gameState' = Last(queue)
  /\ queue' = <<>>
  /\ effectsDue' = (Last(queue) # gameState)
  /\ UNCHANGED << depState, callbacks, mounted, player, monsters, camera, keys, frameCount,
                  startTime, completionData, jumpModifier, dimensions, level,
                  keyEvents, lastPressed, emitted, trace, requests, entries, step, calc >>

\* React runs the passive effects of the committed render
FlushEffects ==
  /\ effectsDue
  /\ \E now \in Clock(World) : SetWorld(RunEffects(World, LEVEL_1, now))
  /\ effectsDue' = FALSE
  /\ UNCHANGED << mounted, queue, keys, frameCount, jumpModifier, dimensions, level,
                  keyEvents, lastPressed, emitted, trace, step, calc >>

RestartDeferred ==
  /\ gameState \in {"start", "won", "lost"}
  /\ gameState' = "playing"
  /\ queue' = <<>>
  /\ effectsDue' = TRUE
  /\ UNCHANGED << depState, callbacks, mounted, player, monsters, camera, keys,
                  frameCount, startTime, completionData, jumpModifier, dimensions,
                  level, keyEvents, lastPressed, emitted, trace, requests,
                  entries, step, calc >>
\* handleRestart, from a click on START GAME or RETRY MISSION: a discrete
\* event, so React first runs effects still due, then renders and runs the
\* new render's effects before returning to the host
Restart ==
  /\ gameState \in {"start", "won", "lost"}
  /\ \E t1 \in (IF effectsDue THEN Clock(World) ELSE {0}), t2 \in Times :
       LET w0 == IF effectsDue THEN RunEffects(World, LEVEL_1, t1) ELSE World
           w1 == [w0 EXCEPT !.gameState = "playing"]
       IN  SetWorld(RunEffects(w1, LEVEL_1, t2))
  /\ queue' = <<>>
  /\ effectsDue' = FALSE
  /\ UNCHANGED << mounted, keys, frameCount, jumpModifier, dimensions, level, keyEvents, lastPressed,
                  emitted, trace, step, calc >>

KeyDownActs ==
  /\ keyEvents < KeyCap
  /\ \E k \in KeyCodes :
       /\ ~keys[k]
       /\ keys' = [keys EXCEPT ![k] = TRUE]
       /\ lastPressed' = IF k \in {"ArrowLeft", "ArrowRight"} THEN k ELSE lastPressed
       /\ player' = IF k = "Space" /\ player.isGrounded
                      THEN [player EXCEPT !.vy = (CONFIG.baseJumpForce * jumpModifier) \div 10,
                                          !.isGrounded = FALSE]
                      ELSE [player EXCEPT !.facing = IF k = "ArrowLeft" THEN -1 ELSE @]
  /\ keyEvents' = keyEvents + 1
  /\ UNCHANGED << gameState, queue, effectsDue, depState, callbacks, mounted,
                  monsters, camera, frameCount, startTime, completionData,
                  jumpModifier, dimensions, level, emitted, trace, requests,
                  entries, step, calc >>
\* handleKeyDown
KeyDown ==
  /\ keyEvents < KeyCap
  /\ \E k \in KeyCodes :
       /\ ~keys[k]
       /\ keys' = [keys EXCEPT ![k] = TRUE]
       /\ lastPressed' = IF k \in {"ArrowLeft", "ArrowRight"} THEN k ELSE lastPressed
  /\ keyEvents' = keyEvents + 1
  /\ UNCHANGED << gameState, queue, effectsDue, depState, callbacks, mounted, player,
                  monsters, camera, frameCount, startTime, completionData,
                  jumpModifier, dimensions, level, emitted, trace, requests,
                  entries, step, calc >>

\* handleKeyUp
KeyUp ==
  /\ keyEvents < KeyCap
  /\ \E k \in KeyCodes :
       /\ keys[k]
       /\ keys' = [keys EXCEPT ![k] = FALSE]
  /\ keyEvents' = keyEvents + 1
  /\ UNCHANGED lastPressed
  /\ UNCHANGED << gameState, queue, effectsDue, depState, callbacks, mounted, player,
                  monsters, camera, frameCount, startTime, completionData,
                  jumpModifier, dimensions, level, emitted, trace, requests,
                  entries, step, calc >>

Next ==
  \/ Frame
  \/ IdleFrame
  \/ Commit
  \/ FlushEffects
  \/ Restart
  \/ KeyDown
  \/ KeyUp

Spec == Init /\ [][Next]_vars

\* ------------------------------------------------- the same program, other levels
InitTerrain ==
  /\ Mounted
  /\ level \in TerrainLevels
  /\ dimensions \in Viewports \cup TallViewports
  /\ calc = [t1 |-> 0, t2 |-> 0, p1 |-> 0, p2 |-> 0, done |-> FALSE]

SpecTerrain == InitTerrain /\ [][Next]_vars

InitRun ==
  /\ Mounted
  /\ level \in RunLevels
  /\ dimensions \in Viewports
  /\ calc = [t1 |-> 0, t2 |-> 0, p1 |-> 0, p2 |-> 0, done |-> FALSE]

\* on the long level a key that went down stays down
NextRun ==
  \/ Frame
  \/ IdleFrame
  \/ Commit
  \/ FlushEffects
  \/ Restart
  \/ KeyDown

SpecRun == InitRun /\ [][NextRun]_vars

\* ------------------------------------------ the same program until teardown
MountLevels == { 1 }

InitMount ==
  /\ Mounted
  /\ level \in MountLevels
  /\ dimensions \in Viewports
  /\ calc = [t1 |-> 0, t2 |-> 0, p1 |-> 0, p2 |-> 0, done |-> FALSE]

\* the page is left: React runs the cleanups of the last render's effects
Unmount ==
  /\ mounted
  /\ mounted' = FALSE
  /\ callbacks' = CancelFrame(callbacks)
  /\ UNCHANGED << gameState, queue, effectsDue, depState, player,
                  monsters, camera, keys, frameCount, startTime, completionData,
                  jumpModifier, dimensions, level, keyEvents, lastPressed,
                  emitted, trace, requests, entries, step, calc >>

\* renders, effects and event handlers need the mounted component; the host
\* calls whatever callback is registered with it
NextMount ==
  \/ Frame
  \/ IdleFrame
  \/ mounted /\ Commit
  \/ mounted /\ FlushEffects
  \/ mounted /\ Restart
  \/ mounted /\ KeyDown
  \/ mounted /\ KeyUp
  \/ Unmount

SpecMount == InitMount /\ [][NextMount]_vars
\* ------------------------------------------------ the score calculator alone
\* Elapsed times handed to calculatePoints, in milliseconds.
TimeInputs ==
  { -10000, -1000, -15, -5, 0, 5, 100, 500, 1000, 1900, 2100, 10000, 10100,
    45700, 50000, 89000, 89990, 89995, 90000, 90005, 100000, 200000, 1000000 }

InitCalc ==
  /\ Mounted
  /\ level \in SessionLevels
  /\ dimensions \in Viewports
  /\ calc \in [t1 : TimeInputs, t2 : TimeInputs, p1 : {0}, p2 : {0}, done : {FALSE}]

Calculate ==
  /\ ~calc.done
  /\ calc' = [calc EXCEPT !.p1 = calculatePoints(calc.t1),
                          !.p2 = calculatePoints(calc.t2), !.done = TRUE]
  /\ UNCHANGED << gameState, queue, effectsDue, depState, callbacks, mounted, player,
                  monsters, camera, keys, frameCount, startTime, completionData,
                  jumpModifier, dimensions, level, keyEvents, lastPressed, emitted, trace,
                  requests, entries, step >>

NextCalc == Calculate

SpecCalc == InitCalc /\ [][NextCalc]_vars

\* ==================================================================== claims

\* C1: for every elapsed time t, negative ones included, calculatePoints(t) is
\* max(1000, 10000 - floor(t * 100)): never below 1000, exactly 1000 from 90 s
\* on, and below 90 s the number v = 10000 - points satisfies
\* v <= t * 100 < v + 1 (so v is the floor, also for negative t, and there is
\* no upper clamp); 0 s gives 10000, 89 s gives 1100, 90 s gives 1000 and
\* -10 s gives 11000.
PointsAsSpecified(ms, pts) ==
  /\ pts >= 1000
  /\ ms >= 90000 => pts = 1000
  /\ ms < 90000 => /\ (10000 - pts) * 10 <= ms
                   /\ ms < (10000 - pts) * 10 + 10
  /\ ms = 0 => pts = 10000
  /\ ms = 89000 => pts = 1100
  /\ ms = 90000 => pts = 1000
  /\ ms = -10000 => pts = 11000

C1_Formula ==
  calc.done => /\ PointsAsSpecified(calc.t1, calc.p1)
               /\ PointsAsSpecified(calc.t2, calc.p2)

C1_Witness == calc.done /\ calc.t1 = -15 /\ calc.p1 = 10002 /\ calc.t2 = 89000

\* C2: for 0 <= t1 <= t2, calculatePoints(t2) <= calculatePoints(t1);
\* calculatePoints(0) = 10000; calculatePoints(t) = 1000 for every t >= 90 s.
C2_Formula ==
  calc.done =>
    /\ (0 <= calc.t1 /\ calc.t1 <= calc.t2) => calc.p2 <= calc.p1
    /\ calc.t1 = 0 => calc.p1 = 10000
    /\ calc.t1 >= 90000 => calc.p1 = 1000

C2_Witness ==
  /\ calc.done
  /\ calc.t1 = 1900 /\ calc.t2 = 2100 /\ calc.p2 < calc.p1

\* C3: GameStatus starts as 'start' and changes only start -> playing,
\* won -> playing, lost -> playing, playing -> won and playing -> lost; the
\* simulation core requests only 'won' or 'lost', requests them only while the
\* status is 'playing', and 'start' is never entered again.
AllowedTransitions ==
  { <<"start", "playing">>, <<"won", "playing">>, <<"lost", "playing">>,
    <<"playing", "won">>, <<"playing", "lost">> }

C3_Claim ==
  /\ gameState = "start"
  /\ [][ /\ gameState' # gameState => <<gameState, gameState'>> \in AllowedTransitions
         /\ frameCount' # frameCount =>
              /\ \A i \in DOMAIN emitted' : emitted'[i] \in {"won", "lost"}
              /\ emitted' # <<>> => gameState = "playing" ]_vars

\* C4: within one playing session the simulation core emits at most one
\* outcome request, whatever the interleaving of frame callbacks and the
\* status re-render.
C4_Claim == Len(requests) <= 1

\* C5: every update() call emits exactly one of {no-op, request-won,
\* request-lost}: it calls setGameState at most once, and once it has emitted
\* an outcome it resolves no further collision and leaves the camera alone.
C5_Formula ==
  [][ frameCount' # frameCount =>
        /\ emitted' \in { <<>>, <<"won">>, <<"lost">> }
        /\ \A i \in DOMAIN trace' : trace'[i] = "emit" => i = Len(trace')
        /\ emitted' # <<>> => /\ trace' # <<>>
                              /\ Last(trace') = "emit"
                              /\ camera' = camera
        /\ emitted' = <<>> => /\ trace' # <<>>
                              /\ Last(trace') = "camera" ]_vars

C5_Witness ==
  /\ emitted = <<"won">>
  /\ trace = <<"resolve", "emit">>
  /\ camera # [x |-> 0, y |-> 0]

\* C6: every entry into 'playing' produces the same initial Player State
\* (start position, vx = vy = 0, isGrounded = false, facing = 1, frame = 0) and
\* the same initial Monster State list, whatever the previous session left.
StartEntity == CHOOSE e \in { LEVEL_1[i] : i \in DOMAIN LEVEL_1 } : e.type = "start"

C6_Formula ==
  \A i \in DOMAIN entries :
    /\ entries[i] = entries[1]
    /\ entries[i].player.x = StartEntity.x
    /\ entries[i].player.y = StartEntity.y
    /\ entries[i].player.vx = 0
    /\ entries[i].player.vy = 0
    /\ entries[i].player.isGrounded = FALSE
    /\ entries[i].player.facing = 1
    /\ entries[i].player.frame = 0
    /\ (i = Len(entries) /\ frameCount = 0) =>
         player = entries[i].player /\ monsters = entries[i].monsters

C6_Witness ==
  /\ Len(entries) = 2
  /\ gameState = "playing"
  /\ frameCount >= 3
  /\ requests = <<>>
  /\ player = entries[1].player
  /\ monsters = entries[1].monsters

\* C7: completion data is non-null only while the status is 'won': it is null
\* in 'start', null while playing, and null after any loss.
C7_Claim == completionData.set => gameState = "won"

\* C8 as claimed: whenever the game is won, the stored points are between 1000
\* and 10000 inclusive.
C8_Claim ==
  (gameState = "won" /\ completionData.set) =>
    (completionData.points >= 1000 /\ completionData.points <= 10000)

\* C8 as amended: the stored points are at least 1000, and at most 10000
\* whenever the measured completion time is not negative.
C8_Formula ==
  completionData.set =>
    /\ completionData.points >= 1000
    /\ completionData.completionTime >= 0 => completionData.points <= 10000

C8_Witness ==
  /\ gameState = "won"
  /\ completionData.set
  /\ completionData.completionTime = 150000
  /\ completionData.points = 1000

C11_Formula ==
  /\ -CONFIG.maxSpeed <= player.vx /\ player.vx <= CONFIG.maxSpeed
  /\ -CONFIG.maxSpeed <= step.integrated.vx
  /\ step.integrated.vx <= CONFIG.maxSpeed

C11_Witness ==
  /\ gameState = "playing" /\ requests = <<>>
  /\ frameCount >= 12
  /\ keys["ArrowRight"]
  /\ player.vx > 380
  /\ step.integrated.vx = player.vx

\* A movement key is held toward the player's motion: exactly one of the two
\* keys is down and the velocity does not point the other way.
HeldToward ==
  \/ keys["ArrowRight"] /\ ~keys["ArrowLeft"] /\ player.vx >= 0
  \/ keys["ArrowLeft"] /\ ~keys["ArrowRight"] /\ player.vx <= 0

\* C12 as claimed: with a movement key held, |vx| after the clamp never exceeds
\* maxSpeed and keeps growing toward it: every such step leaves |vx| larger
\* than it found it, unless |vx| is maxSpeed.
C12_Claim ==
  [][ (frameCount' # frameCount /\ HeldToward) =>
        /\ Abs(step'.integrated.vx) <= CONFIG.maxSpeed
        /\ \/ Abs(step'.integrated.vx) > Abs(player.vx)
           \/ Abs(step'.integrated.vx) = CONFIG.maxSpeed ]_vars

\* C12 as amended: with a movement key held, |vx| never shrinks and never
\* exceeds moveSpeed * friction / (1 - friction) (4.53, below maxSpeed); it
\* grows in every step that starts more than one hundredth below that value.
C12_Formula ==
  [][ (frameCount' # frameCount /\ HeldToward) =>
        /\ Abs(step'.integrated.vx) >= Abs(player.vx)
        /\ Abs(step'.integrated.vx) * (100 - CONFIG.frictionPct)
             <= CONFIG.moveSpeed * CONFIG.frictionPct
        /\ Abs(step'.integrated.vx) < CONFIG.maxSpeed
        /\ Abs(player.vx) * (100 - CONFIG.frictionPct)
             <= CONFIG.moveSpeed * CONFIG.frictionPct - 100
             => Abs(step'.integrated.vx) > Abs(player.vx) ]_vars

C12_Witness ==
  /\ gameState = "playing" /\ requests = <<>> /\ Len(entries) = 1
  /\ frameCount >= 30
  /\ keys["ArrowRight"]
  /\ player.vx = step.integrated.vx
  /\ player.vx > 440
  /\ player.x > P(150)

\* baseJumpForce * jumpModifier
JumpVy == (CONFIG.baseJumpForce * jumpModifier) \div 10

\* C13: a step sets vy to baseJumpForce * jumpModifier only if the jump key is
\* down and isGrounded was true when the step began, and such a step ends with
\* isGrounded false; a step that begins airborne integrates vy + gravity,
\* whether the jump key is down or not, so there is no double jump.
C13_Formula ==
  [][ frameCount' # frameCount =>
        /\ step'.integrated.vy = JumpVy =>
              /\ keys["Space"]
              /\ player.isGrounded
              /\ ~step'.integrated.isGrounded
              /\ ~player'.isGrounded
        /\ step'.integrated.vy # JumpVy =>
              step'.integrated.vy = player.vy + CONFIG.gravity
        /\ ~player.isGrounded =>
              step'.integrated.vy = player.vy + CONFIG.gravity ]_vars

C13_Witness ==
  /\ gameState = "playing" /\ requests = <<>>
  /\ keys["Space"]
  /\ ~player.isGrounded
  /\ player.vy = JumpVy + 2 * CONFIG.gravity
  /\ player.y = StartEntity.y + 3 * JumpVy + 3 * CONFIG.gravity

\* a platform resolution on the vertical axis while vy > 0: a landing
Landed(h) == h.after.y # h.before.y /\ h.before.vy > 0

\* C14: every step clears isGrounded before it resolves collisions, and
\* isGrounded is true at the end of a step only if that step resolved a
\* platform overlap on the vertical axis while vy > 0; a step without such a
\* resolution ends with isGrounded false.
C14_Formula ==
  [][ frameCount' # frameCount =>
        /\ ~step'.clamped.isGrounded
        /\ player'.isGrounded =>
              \E i \in DOMAIN step'.contacts : Landed(step'.contacts[i]) ]_vars

C14_Witness ==
  /\ gameState = "playing" /\ requests = <<>>
  /\ player.isGrounded
  /\ Len(step.contacts) = 2
  /\ Landed(step.contacts[1])
  /\ step.contacts[2].after.x < step.contacts[2].before.x
  /\ step.integrated.isGrounded

\* C15: whenever isGrounded is true at the end of a step, the player rests on
\* the top of a platform: player.y + player.height is the y of some platform
\* the player horizontally spans, also after a step that overlapped several
\* platforms.
C15_Claim ==
  player.isGrounded =>
    \E i \in DOMAIN LEVEL_1 :
      /\ LEVEL_1[i].type = "platform"
      /\ player.y + player.height = LEVEL_1[i].y
      /\ player.x < LEVEL_1[i].x + LEVEL_1[i].w
      /\ player.x + player.width > LEVEL_1[i].x

\* C16: after every step the player's x lies in [0, levelWidth], and a step
\* whose integration left x outside that range (so that x was clamped) ends
\* with vx = 0.
C16_Claim ==
  /\ [](0 <= player.x /\ player.x <= CONFIG.levelWidth)
  /\ [][ ( /\ frameCount' # frameCount
           /\ \/ step'.integrated.x < 0
              \/ step'.integrated.x > CONFIG.levelWidth )
         => player'.vx = 0 ]_vars

\* C17: a step whose integration leaves the player's y above 800 requests
\* 'lost' and does nothing else: it resolves no platform, requests no other
\* outcome and leaves the camera alone, also when the player overlaps a goal.
C17_Formula ==
  [][ (frameCount' # frameCount /\ step'.integrated.y > VoidY) =>
        /\ emitted' = <<"lost">>
        /\ trace' = <<"emit">>
        /\ step'.contacts = <<>>
        /\ player' = step'.clamped
        /\ camera' = camera ]_vars

C17_Witness ==
  /\ emitted = <<"lost">>
  /\ player.y > VoidY
  /\ camera # [x |-> 0, y |-> 0]
  /\ \E i \in DOMAIN LEVEL_1 :
       LEVEL_1[i].type = "goal" /\ Overlaps(player, LEVEL_1[i])

\* The step recorded in st left the player, after integration and above the
\* void threshold, on a hazard, with no goal listed before that hazard under
\* the player as well.
HazardHit(st) ==
  /\ st.clamped.y <= VoidY
  /\ \E i \in DOMAIN LEVEL_1 :
       /\ LEVEL_1[i].type = "hazard"
       /\ Overlaps(st.clamped, LEVEL_1[i])
       /\ \A j \in 1..(i - 1) :
            ~(LEVEL_1[j].type = "goal" /\ Overlaps(st.clamped, LEVEL_1[j]))

\* the player as the step recorded in st left it, when it requested nothing
EndOf(st) ==
  IF st.contacts = <<>> THEN st.clamped ELSE Last(st.contacts).after

\* C18: if a step's integration leaves the player (above the void threshold)
\* on a hazard, the next status request is 'lost', wherever the platforms the
\* player overlaps sit in the level data: a request made by that step is
\* 'lost', and if that step made none, a request made by the step after it is
\* 'lost'.
C18_Claim ==
  [][ frameCount' # frameCount =>
        /\ (HazardHit(step') /\ emitted' # <<>>) => emitted' = <<"lost">>
        /\ ( /\ frameCount > 0 /\ HazardHit(step) /\ emitted = <<>>
             /\ player = EndOf(step)
             /\ emitted' # <<>> ) => emitted' = <<"lost">> ]_vars

\* where the entity with this id sits in the level data
IndexOf(id) == CHOOSE i \in DOMAIN LEVEL_1 : LEVEL_1[i].id = id

\* the player as the scan of the step recorded in st found it on reaching
\* entity i: as the last platform resolution before i left it
PosAt(st, i) ==
  LET earlier == { n \in DOMAIN st.contacts : IndexOf(st.contacts[n].id) < i }
  IN  IF earlier = {} THEN st.clamped
      ELSE st.contacts[CHOOSE n \in earlier : \A o \in earlier : o <= n].after

\* entity i ends the session when the scan of the step recorded in st reaches it
Ends(st, i) ==
  /\ LEVEL_1[i].type \in {"hazard", "goal"}
  /\ Overlaps(PosAt(st, i), LEVEL_1[i])

\* C19: in a step that reaches the entity scan, the outcome is decided by the
\* order of the level data: the step requests the outcome of the first hazard
\* or goal in that order that the player overlaps when the scan reaches it
\* ('lost' for a hazard, 'won' for a goal), also when a goal and a hazard are
\* overlapped together, and the scan stops there: no later platform is
\* resolved and the player stays as the scan found it.
C19_Formula ==
  [][ (frameCount' # frameCount /\ step'.clamped.y <= VoidY) =>
        \A i \in DOMAIN LEVEL_1 :
          (Ends(step', i) /\ \A j \in 1..(i - 1) : ~Ends(step', j)) =>
            /\ emitted' = << IF LEVEL_1[i].type = "goal" THEN "won" ELSE "lost" >>
            /\ \A n \in DOMAIN step'.contacts : IndexOf(step'.contacts[n].id) < i
            /\ player' = PosAt(step', i) ]_vars

C19_Witness ==
  /\ emitted = <<"lost">>
  /\ gameState = "playing"
  /\ \E i, j \in DOMAIN LEVEL_1 :
       /\ i < j
       /\ LEVEL_1[i].type = "hazard" /\ Overlaps(player, LEVEL_1[i])
       /\ LEVEL_1[j].type = "goal" /\ Overlaps(player, LEVEL_1[j])

\* C20: on the level of the settling scenario (start at y = 350, player height
\* 50, a platform at y = 400, h = 50 spanning x in [0, 200]) and with no key
\* ever pressed, the player is settled from the end of the first step on, at
\* the end of every later step: y = 400 - player height, vy = 0, isGrounded.
C20_Formula ==
  (level \in RunLevels /\ keyEvents = 0 /\ frameCount >= 1) =>
    /\ player.y = P(400) - player.height
    /\ player.vy = 0
    /\ player.isGrounded

C20_Witness ==
  /\ level \in RunLevels /\ keyEvents = 0
  /\ gameState = "playing" /\ requests = <<>>
  /\ frameCount >= 25
  /\ entries[1].player.y = P(350) /\ entries[1].player.height = P(50)
  /\ player.y = P(350) /\ player.vy = 0 /\ player.isGrounded
  /\ step.integrated.y = P(350) + CONFIG.gravity


\* the step recorded in st got as far as the monster check: the player was
\* above the void threshold and no hazard or goal ended the entity scan
ReachedMonsters(st) ==
  /\ st.clamped.y <= VoidY
  /\ \A i \in DOMAIN LEVEL_1 : ~Ends(st, i)

\* C21: monster contact is fatal: in a step that reaches the monster check,
\* if the player as the platform resolution left it overlaps a monster at the
\* position the monster has after this step's patrol move, the step requests
\* 'lost' and nothing else, and the player stays where the resolution left it.
C21_Formula ==
  [][ ( /\ frameCount' # frameCount
        /\ ReachedMonsters(step')
        /\ \E m \in DOMAIN monsters' : Overlaps(EndOf(step'), monsters'[m]) ) =>
        /\ emitted' = <<"lost">>
        /\ player' = EndOf(step') ]_vars

C21_Witness ==
  /\ emitted = <<"lost">>
  /\ ReachedMonsters(step)
  /\ player = EndOf(step)
  /\ \E m \in DOMAIN monsters :
       /\ Overlaps(player, monsters[m])
       /\ monsters[m].x # entries[Len(entries)].monsters[m].x
\* C22: the viewport never shows below the absolute level floor: from the
\* camera's reset value on, in every frame of a session, camera.y plus the
\* viewport height is at most 800, whatever the viewport height.
C22_Claim ==
  entries # <<>> => camera.y + dimensions.height <= P(800)
\* C23: each Monster State built at session start carries exactly the
\* patrolStart, patrolEnd and speed of its monster Level Entity and an initial
\* vx of magnitude speed, also when the entity's patrolStart is 0.
C23_Claim ==
  \A n \in DOMAIN entries :
    \A i \in DOMAIN entries[n].monsters :
      LET ms == entries[n].monsters[i]
          e == LEVEL_1[IndexOf(ms.id)]
      IN  /\ ms.patrolStart = e.patrolStart
          /\ ms.patrolEnd = e.patrolEnd
          /\ ms.speed = e.speed
          /\ Abs(ms.vx) = e.speed
\* C24: horizontal platform push-out: a player that overlaps a platform with
\* overlapX < overlapY is moved to the platform's left edge if vx > 0, to its
\* right edge if vx < 0 and, when vx = 0, to the edge nearer its current
\* position; vx is then 0 and the player no longer overlaps that platform.
C24_Claim ==
  \A n \in DOMAIN step.contacts :
    LET h == step.contacts[n]
        e == LEVEL_1[IndexOf(h.id)]
        left == e.x - h.before.width
        right == e.x + e.w
        overlapX2 == (h.before.width + e.w)
                       - Abs((2 * h.before.x + h.before.width) - (2 * e.x + e.w))
        overlapY2 == (h.before.height + e.h)
                       - Abs((2 * h.before.y + h.before.height) - (2 * e.y + e.h))
    IN  overlapX2 < overlapY2 =>
          /\ h.before.vx > 0 => h.after.x = left
          /\ h.before.vx < 0 => h.after.x = right
          /\ h.before.vx = 0 =>
               h.after.x = IF Abs(h.before.x - left) < Abs(h.before.x - right)
                             THEN left
                           ELSE IF Abs(h.before.x - right) < Abs(h.before.x - left)
                             THEN right
                           ELSE h.after.x
          /\ h.after.vx = 0
          /\ ~Overlaps(h.after, e)
\* the direction of a movement key
Direction(k) == IF k = "ArrowLeft" THEN -1 ELSE 1

\* C25: after each step in which a movement key is down, the player's facing
\* is the direction of the most recently pressed movement key that is down
\* (-1 for left, +1 for right), also when both are held at once; after a step
\* with no movement key down facing is as it was.
C25_Claim ==
  [][ frameCount' # frameCount =>
        IF keys["ArrowLeft"] /\ keys["ArrowRight"]
          THEN player'.facing = Direction(lastPressed)
        ELSE IF keys["ArrowLeft"] THEN player'.facing = -1
        ELSE IF keys["ArrowRight"] THEN player'.facing = 1
        ELSE player'.facing = player.facing ]_vars
\* the keys whose pressed/released value differs between two key tables
Flipped(a, b) == { k \in KeyCodes : a[k] # b[k] }

\* C26: input is sampled, not queued: a key event only overwrites that key's
\* pressed/released value (the last write wins) and changes neither player,
\* monster or camera state nor the status, nothing is kept of it elsewhere for
\* a step to consume, and a step leaves the key values as it found them; so a
\* key pressed and released between two steps leaves the next step what it
\* would have been.
C26_Formula ==
  [][ /\ keys' # keys =>
           /\ Cardinality(Flipped(keys, keys')) = 1
           /\ UNCHANGED << player, monsters, camera, gameState, queue, effectsDue,
                           depState, callbacks, mounted, frameCount, startTime,
                           completionData, emitted, requests >>
      /\ frameCount' # frameCount => keys' = keys ]_vars

\* Space went down and up again between two steps of a session; the player
\* stands as the steps left it
C26_Witness ==
  /\ gameState = "playing" /\ requests = <<>>
  /\ frameCount >= 2
  /\ keyEvents = 2 /\ lastPressed = ""
  /\ \A k \in KeyCodes : ~keys[k]
  /\ player.isGrounded /\ player.vy = 0 /\ player = EndOf(step)
\* C27: on every entry into 'playing' the rebuild of player, monster and
\* camera state comes before the first step that runs with status 'playing':
\* the render that enters 'playing' ends with the rebuilt state in place and
\* its effects run, without a step in between; every step that runs while the
\* status is 'playing' runs after the effects of that render, and between
\* steps nothing but a rebuild changes player, monsters or camera.
C27_Formula ==
  [][ /\ (gameState' = "playing" /\ gameState # "playing") =>
           /\ Len(entries') = Len(entries) + 1
           /\ player' = NewPlayer(StartEntity.x, StartEntity.y)
           /\ monsters' = Last(entries').monsters
           /\ camera' = [x |-> 0, y |-> 0]
           /\ depState' = "playing" /\ ~effectsDue'
           /\ callbacks' = << "playing" >>
           /\ frameCount' = frameCount
      /\ (frameCount' # frameCount /\ gameState = "playing") =>
           depState = "playing" /\ entries # <<>>
      /\ (frameCount' = frameCount /\ << player, monsters, camera >>' # << player, monsters, camera >>) =>
           Len(entries') = Len(entries) + 1 ]_vars

\* the first step of a second session has run, on the rebuilt state
C27_Witness ==
  /\ Len(entries) = 2
  /\ gameState = "playing"
  /\ frameCount >= 2
  /\ step.integrated.y = Last(entries).player.y + CONFIG.gravity
  /\ step.integrated.x = Last(entries).player.x

\* C28: at any time at most one frame callback is registered with the host:
\* each render's frame effect cancels the pending callback before it registers
\* the new one, and after teardown none is registered.
C28_Formula ==
  /\ Len(callbacks) <= 1
  /\ ~mounted => callbacks = <<>>

\* after a re-render in a running session, and after teardown
C28_Witness ==
  /\ ~mounted
  /\ callbacks = <<>>
  /\ frameCount >= 1
  /\ Len(entries) = 2
\* C29: while the status is 'start', 'won' or 'lost', a frame callback leaves
\* the player, every monster and the camera unchanged and requests no outcome:
\* the simulation advances only in steps that run with status 'playing'.
C29_Claim ==
  [][ (gameState # "playing" /\ gameState' = gameState) =>
        /\ UNCHANGED << player, monsters, camera, frameCount >>
        /\ requests' = requests ]_vars
\* the player p stands on top of platform e: bottom edge on the platform's
\* top, some horizontal overlap with it
StandsOn(p, e) ==
  /\ e.type = "platform"
  /\ p.y + p.height = e.y
  /\ p.x < e.x + e.w /\ p.x + p.width > e.x

\* the player rests at the end of a step: grounded on top of a platform, at a
\* standstill, overlapping no entity and no monster, no key pressed
Resting ==
  /\ frameCount > 0
  /\ player.isGrounded
  /\ player.vx = 0 /\ player.vy = 0
  /\ \E i \in DOMAIN LEVEL_1 : StandsOn(player, LEVEL_1[i])
  /\ \A i \in DOMAIN LEVEL_1 :
       LEVEL_1[i].type \in {"platform", "hazard", "goal"} => ~Overlaps(player, LEVEL_1[i])
  /\ \A m \in DOMAIN monsters : ~Overlaps(player, monsters[m])
  /\ \A k \in KeyCodes : ~keys[k]

\* C30: resting is stable: if at the end of a step the player is grounded on
\* top of a platform with any positive horizontal overlap, however small, at
\* a standstill, overlaps no other entity, and no key is pressed, then at the
\* end of the next step the player has the same x and y, vy = 0 and
\* isGrounded = true.
C30_Claim ==
  [][ (Resting /\ frameCount' # frameCount) =>
        /\ player'.x = player.x
        /\ player'.y = player.y
        /\ player'.vy = 0
        /\ player'.isGrounded ]_vars
====
